---- MODULE Spec2Model ----
(***************************************************************************)
(* Model of serles/backends/dane.py: DaneBackend.sign and its helpers      *)
(* generate_ephemeral_ca, create_fullchain and send_cert_issue_email.      *)
(*                                                                         *)
(* Several sign() calls may be in flight at once (one per request thread). *)
(* Every call walks the statements of sign() in program order; the         *)
(* environment (clock, entropy source, file system, the openssl process,   *)
(* the SendGrid endpoint) is nondeterministic.                             *)
(*                                                                         *)
(* Time is counted in seconds, the resolution of an X.509 validity field.  *)
(* Keys and serial numbers are drawn from an entropy source that never     *)
(* repeats a value (RSA-2048 keys, 122-bit uuid4, 159-bit random serial).  *)
(***************************************************************************)
EXTENDS Integers, Sequences, FiniteSets, TLC

\* ------------------------------------------------------------- bounds
MaxClock == 1

\* ------------------------------------------------------------- constants
\* TIME_DELTA = datetime.timedelta(days=5), in seconds
TIME_DELTA == 432000

\* the request threads that call sign(); they share the clock, the entropy
\* source and nothing else
Calls == {1, 2}

\* the key pairs that exist before any call: the requester's
CallerKeys == {1}

SubjectDNs == {"example.test", "other.test"}
GoodAltNames == <<"www.example.test">>
BadAltNames == <<"non-ascii.test">>
AltNameLists == {GoodAltNames, BadAltNames}
Emails == {"ops@example.test"}

\* x509.DNSName(name) raises ValueError unless name is an ASCII str
DNSNameAccepts(name) == name # "non-ascii.test"

None == [kind |-> "none"]

\* ------------------------------------------------------------- names
\* x509.Name([...]) as the sequence of its attributes
LeafSubject(subjectDN) == << <<"CN", subjectDN>> >>

CASubject ==
    << <<"CN", "Handshake Tools Ephemeral CA">>,
       <<"O", "Handshake Tools">>,
       <<"OU", "ACME">> >>

\* ------------------------------------------------------------- state
VARIABLES
    pc,            \* [Calls -> statement of sign() the call is at]
    inp,           \* [Calls -> the arguments of the call]
    ca,            \* [Calls -> (ca_cert, ca_privkey) of the call, or None]
    leaf,          \* [Calls -> the signed leaf certificate, or None]
    tmpfiles,      \* [Calls -> the NamedTemporaryFile handles the call created]
    proc,          \* [Calls -> the openssl process of the call, or None]
    bundle,        \* [Calls -> value returned by create_fullchain, or None]
    digest,        \* [Calls -> tlsa_digest, or None]
    posted,        \* [Calls -> requests the sink received from the call]
    reply,         \* [Calls -> how send_cert_issue_email ended, or None]
    outcome,       \* [Calls -> how sign() ended: None, returned or raised]
    stages,        \* [Calls -> the stages the call has run, in order]
    clock,         \* datetime.datetime.utcnow(), in seconds
    keysDrawn,     \* number of keys that exist (caller keys and generated)
    serialsDrawn   \* number of serial numbers drawn from the entropy source

vars == <<pc, inp, ca, leaf, tmpfiles, proc, bundle, digest,
          posted, reply, outcome, stages, clock, keysDrawn, serialsDrawn>>

Init ==
    /\ pc = [c \in Calls |-> "idle"]
    /\ inp = [c \in Calls |-> None]
    /\ ca = [c \in Calls |-> None]
    /\ leaf = [c \in Calls |-> None]
    /\ tmpfiles = [c \in Calls |-> <<>>]
    /\ proc = [c \in Calls |-> None]
    /\ bundle = [c \in Calls |-> None]
    /\ digest = [c \in Calls |-> None]
    /\ posted = [c \in Calls |-> <<>>]
    /\ reply = [c \in Calls |-> None]
    /\ outcome = [c \in Calls |-> None]
    /\ stages = [c \in Calls |-> <<>>]
    /\ clock = 0
    /\ keysDrawn = Cardinality(CallerKeys)
    /\ serialsDrawn = 0

\* an exception leaves sign(): the call ends without a return value
Raise(c, exc) ==
    /\ pc' = [pc EXCEPT ![c] = "raised"]
    /\ outcome' = [outcome EXCEPT ![c] = [kind |-> "raised", exc |-> exc]]

Enter(c, stage) == stages' = [stages EXCEPT ![c] = Append(@, stage)]

\* ------------------------------------------------------------- clock
\* the values datetime.datetime.utcnow() can return when the last value read
\* was t: the clock is read to the second and does not run backwards
UtcNow(t) == {u \in {t, t + 1} : u <= MaxClock}

\* ------------------------------------------------------------- sign()
\* a caller invokes sign(csr, subjectDN, subjectAltNames, email); the CSR
\* bytes are either not a DER request or carry any public key that exists
Sign(c) ==
    /\ pc[c] = "idle"
    /\ \E csr \in {[wellFormed |-> FALSE, key |-> 0]}
                  \cup {[wellFormed |-> TRUE, key |-> k] : k \in 1..keysDrawn},
          dn \in SubjectDNs, sans \in AltNameLists, email \in Emails :
          inp' = [inp EXCEPT ![c] = [csr |-> csr, subjectDN |-> dn,
                                     subjectAltNames |-> sans, email |-> email]]
    /\ pc' = [pc EXCEPT ![c] = "ParseCSR"]
    /\ UNCHANGED <<ca, leaf, tmpfiles, proc, bundle, digest,
                   posted, reply, outcome, stages, clock, keysDrawn, serialsDrawn>>

\* csr_obj = x509.load_der_x509_csr(csr)
ParseCSR(c) ==
    /\ pc[c] = "ParseCSR"
    /\ Enter(c, "ParseCSR")
    /\ IF inp[c].csr.wellFormed
       THEN /\ pc' = [pc EXCEPT ![c] = "GenerateCA"]
            /\ UNCHANGED outcome
       ELSE Raise(c, "ValueError")
    /\ UNCHANGED <<inp, ca, leaf, tmpfiles, proc, bundle,
                   digest, posted, reply, clock, keysDrawn, serialsDrawn>>

\* ------------------------------------------------------------- entropy
\* rsa.generate_private_key(public_exponent=65537, key_size=2048)
GenerateKey == keysDrawn + 1

\* int(uuid.uuid4()) and x509.random_serial_number()
RandomSerial == serialsDrawn + 1

\* ------------------------------------------------------------- certificates
\* the issuer the leaf builder is given: subject = issuer = x509.Name([CN])
LeafIssuer(subjectDN) == LeafSubject(subjectDN)

\* mutant: the leaf is given the public key of the CA key pair
LeafPublicKey_OfCA(c) == ca[c].key

\* .public_key(csr_obj.public_key())
LeafPublicKey(c) == inp[c].csr.key

\* not_valid_before(utcnow() - TIME_DELTA), with utcnow() = t
NotValidBefore(t) == t - TIME_DELTA

\* not_valid_after(utcnow() + TIME_DELTA), with utcnow() = t
NotValidAfter(t) == t + TIME_DELTA

\* generate_ephemeral_ca(): the self-signed CA certificate and its key
EphemeralCA(key, serial, t1, t2) ==
    [cert |-> [subject |-> CASubject,
               issuer |-> CASubject,
               notBefore |-> NotValidBefore(t1),
               notAfter |-> NotValidAfter(t2),
               serial |-> serial,
               publicKey |-> key,
               isCA |-> TRUE,
               altNames |-> <<>>,
               signedBy |-> key],
     key |-> key]

\* the leaf certificate built and signed in sign()
LeafCertificate(c, serial, t1, t2) ==
    [subject |-> LeafSubject(inp[c].subjectDN),
     issuer |-> LeafIssuer(inp[c].subjectDN),
     publicKey |-> LeafPublicKey(c),
     serial |-> serial,
     notBefore |-> NotValidBefore(t1),
     notAfter |-> NotValidAfter(t2),
     isCA |-> FALSE,
     altNames |-> inp[c].subjectAltNames,
     signedBy |-> ca[c].key]

\* ca_cert, ca_privkey = self.generate_ephemeral_ca()
GenerateCA(c) ==
    /\ pc[c] = "GenerateCA"
    /\ Enter(c, "GenerateCA")
    /\ \/ \* key generation fails in the crypto backend
          /\ Raise(c, "InternalError")
          /\ UNCHANGED <<ca, clock, keysDrawn, serialsDrawn>>
       \/ \E t1 \in UtcNow(clock) : \E t2 \in UtcNow(t1) :
             /\ ca' = [ca EXCEPT ![c] =
                          EphemeralCA(GenerateKey, RandomSerial, t1, t2)]
             /\ keysDrawn' = keysDrawn + 1
             /\ serialsDrawn' = serialsDrawn + 1
             /\ clock' = t2
             /\ pc' = [pc EXCEPT ![c] = "SignLeaf"]
             /\ UNCHANGED outcome
    /\ UNCHANGED <<inp, leaf, tmpfiles, proc, bundle, digest,
                   posted, reply>>

\* certificate = x509.CertificateBuilder()...sign(ca_privkey, hashes.SHA256())
SignLeaf(c) ==
    /\ pc[c] = "SignLeaf"
    /\ Enter(c, "SignLeaf")
    /\ IF \A i \in 1..Len(inp[c].subjectAltNames) :
             DNSNameAccepts(inp[c].subjectAltNames[i])
       THEN \E t1 \in UtcNow(clock) : \E t2 \in UtcNow(t1) :
               /\ leaf' = [leaf EXCEPT ![c] =
                              LeafCertificate(c, RandomSerial, t1, t2)]
               /\ serialsDrawn' = serialsDrawn + 1
               /\ clock' = t2
               /\ pc' = [pc EXCEPT ![c] = "AssembleChain"]
               /\ UNCHANGED outcome
       ELSE /\ Raise(c, "ValueError")
            /\ UNCHANGED <<leaf, clock, serialsDrawn>>
    /\ UNCHANGED <<inp, ca, tmpfiles, proc, bundle, digest,
                   posted, reply, keysDrawn>>

\* ------------------------------------------------------------- create_fullchain
\* cert.public_bytes(Encoding.PEM)
Pem(cert) == [armor |-> "CERTIFICATE", body |-> cert]

\* what openssl decodes from a PEM file
FromPem(data) == data.body

\* the list sign() passes to create_fullchain
FullchainInput(c) == <<Pem(ca[c].cert), Pem(leaf[c])>>

\* f = tempfile.NamedTemporaryFile(); f.write(cert); f.flush(), round i
TempFile(c, i, certs) == [name |-> <<c, i>>, data |-> certs[i], open |-> TRUE]

\* the temporary files that exist after n rounds of "for cert in certs"
WrittenFiles(c, certs, n) == [i \in 1..n |-> TempFile(c, i, certs)]

\* certfile_args: every name follows a "-certfile" flag, in the files' order
CertfileArgs(files) == [i \in 1..Len(files) |-> files[i].name]

\* b"": nothing was written to stdout
EmptyBytes == [der |-> "", certs |-> <<>>]

\* the open temporary file that has the given name
FileNamed(files, name) ==
    CHOOSE f \in {files[i] : i \in 1..Len(files)} : f.name = name /\ f.open

\* openssl crl2pkcs7 -nocrl -outform DER -certfile a -certfile b: a
\* certificates-only PKCS#7 holding the files' certificates in argument order
Crl2Pkcs7(files, args) ==
    [der |-> "pkcs7",
     certs |-> [i \in 1..Len(args) |-> FromPem(FileNamed(files, args[i]).data)]]

\* the runs of the openssl process: exit status and what it wrote to stdout
\* (on an error it writes nothing to stdout; stderr goes to DEVNULL)
ToolchainRuns(files, args) ==
    {[exit |-> 0, stdout |-> Crl2Pkcs7(files, args)],
     [exit |-> 1, stdout |-> EmptyBytes]}

\* file.close() for every file in files
CloseAll(files) == [i \in 1..Len(files) |-> [files[i] EXCEPT !.open = FALSE]]

\* what create_fullchain returns for a run of the process
FullchainResult(run) == run.stdout

\* bundle = self.create_fullchain([ca_cert PEM, certificate PEM])
CreateFullchain(c) ==
    /\ pc[c] = "AssembleChain"
    /\ Enter(c, "AssembleChain")
    /\ LET certs == FullchainInput(c)
           files == WrittenFiles(c, certs, Len(certs))
           args == CertfileArgs(files)
       IN \/ \* NamedTemporaryFile() raises in round n + 1: n files are open
             \E n \in 0..(Len(certs) - 1) :
                /\ tmpfiles' = [tmpfiles EXCEPT ![c] = WrittenFiles(c, certs, n)]
                /\ Raise(c, "OSError")
                /\ UNCHANGED <<proc, bundle>>
          \/ \* f.write(cert) or f.flush() raises in round n: n files are open
             \E n \in 1..Len(certs) :
                /\ tmpfiles' = [tmpfiles EXCEPT ![c] = WrittenFiles(c, certs, n)]
                /\ Raise(c, "OSError")
                /\ UNCHANGED <<proc, bundle>>
          \/ \* Popen raises: the executable cannot be started
             /\ tmpfiles' = [tmpfiles EXCEPT ![c] = files]
             /\ Raise(c, "FileNotFoundError")
             /\ UNCHANGED <<proc, bundle>>
          \/ \* proc.stdout.read() raises
             /\ tmpfiles' = [tmpfiles EXCEPT ![c] = files]
             /\ proc' = [proc EXCEPT ![c] = [kind |-> "running", args |-> args]]
             /\ Raise(c, "OSError")
             /\ UNCHANGED bundle
          \/ \* the process runs and its output is read to the end
             \E run \in ToolchainRuns(files, args) :
                /\ proc' = [proc EXCEPT ![c] =
                               [kind |-> "exited", args |-> args,
                                exit |-> run.exit]]
                /\ tmpfiles' = [tmpfiles EXCEPT ![c] = CloseAll(files)]
                /\ bundle' = [bundle EXCEPT ![c] = FullchainResult(run)]
                /\ pc' = [pc EXCEPT ![c] = "DeriveDigest"]
                /\ UNCHANGED outcome
    /\ UNCHANGED <<inp, ca, leaf, digest, posted, reply, clock, keysDrawn,
                   serialsDrawn>>

\* the interpreter drops the frames of a call that raised: the finalizers
\* of the temporary files still open run at some later point
Finalize(c) ==
    /\ pc[c] = "raised"
    /\ \E i \in 1..Len(tmpfiles[c]) : tmpfiles[c][i].open
    /\ tmpfiles' = [tmpfiles EXCEPT ![c] = CloseAll(@)]
    /\ UNCHANGED <<pc, inp, ca, leaf, proc, bundle, digest,
                   posted, reply, outcome, stages, clock, keysDrawn, serialsDrawn>>

\* ------------------------------------------------------------- digest
\* public_bytes(Encoding.DER, PublicFormat.SubjectPublicKeyInfo)
SubjectPublicKeyInfo(key) == [algorithm |-> "rsaEncryption", key |-> key]

\* hashlib.sha256(data).hexdigest()
Sha256Hex(data) == [sha256 |-> data]

\* mutant: the digest is taken over the whole certificate (TLSA selector 0)
TlsaDigest_OfCertificate(certificate) == Sha256Hex(certificate)

\* the TLSA 3 1 1 digest sign() derives from the signed certificate
TlsaDigest(certificate) == Sha256Hex(SubjectPublicKeyInfo(certificate.publicKey))

DeriveDigest(c) ==
    /\ pc[c] = "DeriveDigest"
    /\ Enter(c, "DeriveDigest")
    /\ digest' = [digest EXCEPT ![c] = TlsaDigest(leaf[c])]
    /\ pc' = [pc EXCEPT ![c] = "Notify"]
    /\ UNCHANGED <<inp, ca, leaf, tmpfiles, proc, bundle,
                   posted, reply, outcome, clock, keysDrawn, serialsDrawn>>

\* ------------------------------------------------------------- notification
StatusCodes == {200, 202, 400}

\* mutant: the handler catches HTTP errors only, "except requests.HTTPError"
CaughtBySign_HttpErrorOnly(exc) == exc = "HTTPError"

\* "except Exception as e: print(e)" around send_cert_issue_email
CaughtBySign(exc) == TRUE

\* where sign() goes on when send_cert_issue_email raised exc
AfterNotifyError(c, exc) ==
    IF CaughtBySign(exc)
    THEN /\ pc' = [pc EXCEPT ![c] = "Return"]
         /\ UNCHANGED outcome
    ELSE Raise(c, exc)

\* send_cert_issue_email up to requests.post: the payload is built and
\* handed to requests.post, which has no timeout
Notify(c) ==
    /\ pc[c] = "Notify"
    /\ Enter(c, "Notify")
    /\ posted' = [posted EXCEPT ![c] =
                     Append(@, [to |-> inp[c].email,
                                domain |-> inp[c].subjectDN,
                                digest |-> digest[c]])]
    /\ pc' = [pc EXCEPT ![c] = "AwaitSink"]
    /\ UNCHANGED <<inp, ca, leaf, tmpfiles, proc, bundle,
                   digest, reply, outcome, clock, keysDrawn, serialsDrawn>>

\* requests.post returns r; a status outside [200, 202] is only printed
SinkAnswers(c) ==
    /\ pc[c] = "AwaitSink"
    /\ \E code \in StatusCodes :
          reply' = [reply EXCEPT ![c] =
                       [kind |-> "status", ok |-> code \in {200, 202}]]
    /\ pc' = [pc EXCEPT ![c] = "Return"]
    /\ UNCHANGED <<inp, ca, leaf, tmpfiles, proc, bundle,
                   digest, posted, outcome, stages, clock, keysDrawn,
                   serialsDrawn>>

\* the endpoint is unreachable or the connection breaks: requests.post raises
SinkBreaks(c) ==
    /\ pc[c] = "AwaitSink"
    /\ reply' = [reply EXCEPT ![c] =
                    [kind |-> "raised", exc |-> "ConnectionError"]]
    /\ AfterNotifyError(c, "ConnectionError")
    /\ UNCHANGED <<inp, ca, leaf, tmpfiles, proc, bundle,
                   digest, posted, stages, clock, keysDrawn, serialsDrawn>>

\* return (bundle, None)
Return(c) ==
    /\ pc[c] = "Return"
    /\ Enter(c, "Return")
    /\ outcome' = [outcome EXCEPT ![c] =
                      [kind |-> "returned", bundle |-> bundle[c],
                       error |-> "None"]]
    /\ pc' = [pc EXCEPT ![c] = "done"]
    /\ UNCHANGED <<inp, ca, leaf, tmpfiles, proc, bundle,
                   digest, posted, reply, clock, keysDrawn, serialsDrawn>>

\* ------------------------------------------------------------- specification
\* the steps of call c that the interpreter takes on its own
Step(c) ==
    \/ ParseCSR(c)
    \/ GenerateCA(c)
    \/ SignLeaf(c)
    \/ CreateFullchain(c)
    \/ DeriveDigest(c)
    \/ Notify(c)
    \/ Return(c)

Next ==
    \/ \E c \in Calls :
          \/ Sign(c)
          \/ Step(c)
          \/ SinkAnswers(c)
          \/ SinkBreaks(c)
          \/ Finalize(c)

Spec == Init /\ [][Next]_vars

\* a thread that can take its next statement does take it; nothing makes
\* the notification endpoint answer
FairSpec == Spec /\ \A c \in Calls : WF_vars(Step(c))

\* ------------------------------------------------------------- properties
Returned(c) == outcome[c].kind = "returned"

Raised(c) == outcome[c].kind = "raised"

\* the openssl process of call c ran and failed
ToolchainFailed(c) ==
    /\ proc[c].kind = "exited"
    /\ (proc[c].exit # 0 \/ bundle[c] = EmptyBytes)

\* the PEM inputs the openssl process of call c was pointed at, in order
ToolchainInputs(c) ==
    [i \in 1..Len(proc[c].args) |->
        (CHOOSE f \in {tmpfiles[c][j] : j \in 1..Len(tmpfiles[c])} :
            f.name = proc[c].args[i]).data]

\* the PKCS#7 of the CA certificate and the leaf certificate of call c
FullChain(c) == [der |-> "pkcs7", certs |-> <<ca[c].cert, leaf[c]>>]

StageOrder ==
    <<"ParseCSR", "GenerateCA", "SignLeaf", "AssembleChain", "DeriveDigest",
      "Notify", "Return">>

IsPrefix(s, t) == Len(s) <= Len(t) /\ SubSeq(t, 1, Len(s)) = s

\* C1: if the chain-assembly toolchain fails during sign(), sign() ends
\* with an error and returns no bundle; it never returns (bundle, None)
\* with the output of a failed toolchain run as the bundle.
C1_ToolchainFailureIsAnError ==
    \A c \in Calls : ToolchainFailed(c) => ~Returned(c)

\* C2: once the stages up to digest derivation have succeeded, sign() does
\* not end with an error, and what it returns is (bundle, None) with the
\* bundle chain assembly produced, whether the sink raised, answered with a
\* non-success status or answered with success.
C2_NotificationNeverChangesResult ==
    \A c \in Calls :
        digest[c] # None =>
            /\ ~Raised(c)
            /\ bundle[c] = (IF proc[c].exit = 0 THEN FullChain(c) ELSE EmptyBytes)
            /\ reply[c] # None => pc[c] \in {"Return", "done"}
            /\ pc[c] = "done" =>
                  outcome[c] = [kind |-> "returned", bundle |-> bundle[c],
                                error |-> "None"]

\* C2 witness: one call returned its bundle after the sink raised, the other
\* after the sink answered with a non-success status.
C2_Witness ==
    \E c, d \in Calls :
        /\ Returned(c) /\ reply[c].kind = "raised"
        /\ outcome[c].bundle = FullChain(c)
        /\ Returned(d) /\ reply[d].kind = "status" /\ ~reply[d].ok
        /\ outcome[d].bundle = FullChain(d)

\* C3: in every bundle sign() returns, the issuer name of the leaf
\* certificate equals the subject name of the CA certificate of that call.
C3_LeafIssuerIsCASubject ==
    \A c \in Calls :
        Returned(c) =>
            \A i \in 1..Len(outcome[c].bundle.certs) :
                ~outcome[c].bundle.certs[i].isCA =>
                    outcome[c].bundle.certs[i].issuer = ca[c].cert.subject

\* C4: for every valid CSR the toolchain is handed exactly the CA
\* certificate and then the leaf certificate of the call, and the bundle
\* sign() returns holds exactly these two certificates in that order.
C4_BundleIsCAThenLeaf ==
    \A c \in Calls :
        /\ proc[c] # None => ToolchainInputs(c) = <<Pem(ca[c].cert), Pem(leaf[c])>>
        /\ Returned(c) => outcome[c].bundle.certs = <<ca[c].cert, leaf[c]>>

\* the part of C4 about the inputs alone, which the code satisfies
C4_InputsAreCAThenLeaf ==
    \A c \in Calls :
        proc[c] # None => ToolchainInputs(c) = <<Pem(ca[c].cert), Pem(leaf[c])>>

\* C5: the public key of the leaf certificate is the public key of the CSR
\* of that call and is not the ephemeral CA key of that call; the CA key
\* signs the CA certificate and the leaf and is the public key of the CA
\* certificate only.
C5_LeafKeyIsCsrKey ==
    \A c \in Calls :
        leaf[c] # None =>
            /\ leaf[c].publicKey = inp[c].csr.key
            /\ leaf[c].publicKey # ca[c].key
            /\ leaf[c].signedBy = ca[c].key
            /\ ca[c].cert.signedBy = ca[c].key
            /\ ca[c].cert.publicKey = ca[c].key
            /\ Returned(c) /\ ~ToolchainFailed(c) =>
                  outcome[c].bundle.certs[2].publicKey = inp[c].csr.key

\* C5 witness: a bundle was returned for a CSR that carries the public key
\* of the other call's CA certificate.
C5_Witness ==
    \E c, d \in Calls :
        /\ c # d
        /\ Returned(c) /\ ~ToolchainFailed(c)
        /\ ca[d] # None
        /\ inp[c].csr.key = ca[d].key

\* notBefore < currentTime < notAfter and notAfter - notBefore = 10 days
ValidityWindowHolds(cert) ==
    /\ cert.notBefore < clock
    /\ clock < cert.notAfter
    /\ cert.notAfter - cert.notBefore = 2 * TIME_DELTA

\* C6: for the CA certificate and the leaf certificate of a call,
\* notBefore < currentTime < notAfter and notAfter - notBefore is exactly
\* 10 days, also when the clock advances between the two clock reads.
C6_ValidityWindow ==
    \A c \in Calls :
        /\ ca[c] # None => ValidityWindowHolds(ca[c].cert)
        /\ leaf[c] # None => ValidityWindowHolds(leaf[c])

\* C7: the stages run in the fixed order, and a call in which a stage from
\* ParseCSR to AssembleChain failed stops at that stage: no later stage
\* runs, the sink is not invoked and no bundle is returned.
C7_FailedStageAborts ==
    \A c \in Calls :
        /\ IsPrefix(stages[c], StageOrder)
        /\ Raised(c) => posted[c] = <<>>
        /\ ToolchainFailed(c) =>
              /\ stages[c][Len(stages[c])] = "AssembleChain"
              /\ posted[c] = <<>>
              /\ ~Returned(c)

\* C8: once chain assembly and digest derivation have succeeded, sign()
\* eventually returns the bundle, even if the sink never answers.
C8_SinkCannotBlockIssuance ==
    \A c \in Calls : (digest[c] # None) ~> Returned(c)

\* C9: two calls that both derived a digest use different CA keys and
\* different serial numbers and share no CA certificate when their inputs
\* are identical, and derive (and post) the same digest whenever their CSRs
\* carry the same public key.
C9_FreshCASameDigest ==
    \A c, d \in Calls :
        (c # d /\ digest[c] # None /\ digest[d] # None) =>
            /\ inp[c] = inp[d] =>
                  /\ ca[c].key # ca[d].key
                  /\ ca[c].cert # ca[d].cert
                  /\ leaf[c].signedBy # leaf[d].signedBy
                  /\ Cardinality({ca[c].cert.serial, leaf[c].serial,
                                  ca[d].cert.serial, leaf[d].serial}) = 4
            /\ inp[c].csr.key = inp[d].csr.key =>
                  /\ digest[c] = digest[d]
                  /\ \A i \in 1..Len(posted[c]) : \A j \in 1..Len(posted[d]) :
                        posted[c][i].digest = posted[d][j].digest

\* C9 witness: two calls with identical inputs both posted their digest,
\* with certificates issued at different times.
C9_Witness ==
    \E c, d \in Calls :
        /\ c # d
        /\ inp[c] = inp[d]
        /\ posted[c] # <<>> /\ posted[d] # <<>>
        /\ leaf[c].notBefore # leaf[d].notBefore

\* C10: no temporary file of a call is open once create_fullchain has been
\* left, on any exit path.
C10_TempFilesClosedOnExit ==
    \A c \in Calls :
        pc[c] # "AssembleChain" =>
            \A i \in 1..Len(tmpfiles[c]) : ~tmpfiles[c][i].open

====
